---- MODULE Spec2Model ----
(***************************************************************************)
(* The batch identifier-renaming engine of humanify                        *)
(* (src/src/plugins/local-llm-rename/batch-visit-all-indentifiers.ts) and  *)
(* its resume sidecar (src/src/resume-utils.ts).                           *)
(*                                                                         *)
(* A syntax tree is a static structure (scopes, identifier nodes) plus the *)
(* current name of every identifier node.  Bindings are looked up by name  *)
(* along the scope chain, as the engine does through scope.getBinding,     *)
(* scope.hasBinding and scope.rename.  A name is <<stem, n>>: the stem     *)
(* followed by the decimal number n, n = 0 standing for no digits.         *)
(***************************************************************************)
EXTENDS Integers, Sequences, FiniteSets, TLC

\* ------------------------------------------------------------------ bounds
MaxConcurrency == 2
MaxInterval == 2
MaxBatch == 2

\* --------------------------------------------------------------- utilities
Range(f) == {f[i] : i \in DOMAIN f}

Min(S) == CHOOSE x \in S : \A y \in S : x <= y

\* ------------------------------------------------------------------- names
Nm(stem) == <<stem, 0>>

\* The name the visitor proposes in the runs explored.
AnswerNames == {Nm("x")}

WEB_API_NAMES_LIST == {Nm("Headers"), Nm("Set"), Nm("Map"), Nm("FormData"), Nm("URL"),
  Nm("URLSearchParams"), Nm("Blob"), Nm("TextEncoder"), Nm("TextDecoder"),
  Nm("ReadableStream"), Nm("WritableStream"), Nm("TransformStream"), Nm("Response"),
  Nm("Request"), Nm("ArrayBuffer"), Nm("DataView"), Nm("Uint8Array"), Nm("Uint16Array"),
  Nm("Uint32Array"), Nm("Int8Array"), Nm("Int16Array"), Nm("Int32Array"),
  Nm("Float32Array"), Nm("Float64Array"), Nm("Promise"), Nm("fetch")}

endWithNumber(name) == name[2] > 0

getSuffixNumber(name) == name[2]

\* A faulty rule that counts in steps of two.
renameConflictSkippingOne(name) == <<name[1], name[2] + 2>>

\* foo -> foo1, foo1 -> foo2
renameConflictIndentier(name) ==
  IF endWithNumber(name) THEN <<name[1], getSuffixNumber(name) + 1>>
  ELSE <<name[1], 1>>

\* ------------------------------------------------------------------- trees
\* A scope: parent (0 for the program), kind, size = block.end - block.start.
Sc(p, k, z) == [parent |-> p, kind |-> k, size |-> z]

\* An identifier node.  role: "decl" (the declaring identifier of a binding),
\* "assign" (a binding identifier that declares nothing: the target of an
\* assignment or update), "ref" (a referenced identifier).  key: "fnId" (id of
\* a FunctionDeclaration), "param" (a plain parameter, the only kind whose
\* binding.path is an Identifier), "var" (a declarator id), "catch" (the
\* parameter of a catch clause), "none".  scope is path.scope, bscope the
\* scope that holds the binding, start the node's offset, bstart the offset of
\* binding.path's node, empty whether the catch body has no statement.
Id(r, k, s, b, n, st, bst, e) ==
  [role |-> r, key |-> k, scope |-> s, bscope |-> b, name |-> n, start |-> st,
   bstart |-> bst, empty |-> e]

Decl(k, s, b, n, st, bst) == Id("decl", k, s, b, n, st, bst, FALSE)
Asg(s, n, st) == Id("assign", "none", s, 0, n, st, st, FALSE)
Ref(s, n, st) == Id("ref", "none", s, 0, n, st, st, FALSE)

\* const b = 1; function f() { const x = 2; return b + x; }
ProgOuterInner ==
  [scopes |-> <<Sc(0, "Program", 58), Sc(1, "Function", 44)>>,
   ids |-> <<Decl("var", 1, 1, Nm("b"), 6, 6),
             Decl("fnId", 2, 1, Nm("f"), 22, 13),
             Decl("var", 2, 2, Nm("x"), 34, 34),
             Ref(2, Nm("b"), 48),
             Ref(2, Nm("x"), 52)>>]

\* const a = 1; function f() { const a = 2; return a; } use(a);
ProgShadow ==
  [scopes |-> <<Sc(0, "Program", 62), Sc(1, "Function", 40)>>,
   ids |-> <<Decl("var", 1, 1, Nm("a"), 6, 6),
             Decl("fnId", 2, 1, Nm("f"), 22, 13),
             Decl("var", 2, 2, Nm("a"), 34, 34),
             Ref(2, Nm("a"), 48),
             Ref(1, Nm("a"), 58)>>]

\* function g() { var a = 0; a = 1; return a; }
ProgReassign ==
  [scopes |-> <<Sc(0, "Program", 44), Sc(1, "Function", 44)>>,
   ids |-> <<Decl("fnId", 2, 1, Nm("g"), 9, 0),
             Decl("var", 2, 2, Nm("a"), 19, 19),
             Asg(2, Nm("a"), 26),
             Ref(2, Nm("a"), 40)>>]

\* function f() { { let a = 1; use(a); } { let a = 2; use(a); } }
ProgBlocks ==
  [scopes |-> <<Sc(0, "Program", 62), Sc(1, "Function", 62), Sc(2, "Block", 22),
                Sc(2, "Block", 22)>>,
   ids |-> <<Decl("fnId", 2, 1, Nm("f"), 9, 0),
             Decl("var", 3, 3, Nm("a"), 21, 21),
             Ref(3, Nm("a"), 32),
             Decl("var", 4, 4, Nm("a"), 44, 44),
             Ref(4, Nm("a"), 55)>>]

\* function w() { { let a; } try { run(); } catch (b) {} }
ProgCatch ==
  [scopes |-> <<Sc(0, "Program", 58), Sc(1, "Function", 58), Sc(2, "Block", 10),
                Sc(2, "CatchClause", 12)>>,
   ids |-> <<Decl("fnId", 2, 1, Nm("w"), 9, 0),
             Decl("var", 3, 3, Nm("a"), 21, 21),
             Id("decl", "catch", 4, 4, Nm("b"), 52, 45, TRUE)>>]

\* const a = 1; const b = 2; const c = 3;
ProgThree ==
  [scopes |-> <<Sc(0, "Program", 38)>>,
   ids |-> <<Decl("var", 1, 1, Nm("a"), 6, 6),
             Decl("var", 1, 1, Nm("b"), 19, 19),
             Decl("var", 1, 1, Nm("c"), 32, 32)>>]

\* function f() {} { let a = 1; use(a); } { let b = 2; use(b); }
ProgMerge ==
  [scopes |-> <<Sc(0, "Program", 61), Sc(1, "Function", 15), Sc(1, "Block", 22),
                Sc(1, "Block", 22)>>,
   ids |-> <<Decl("fnId", 2, 1, Nm("f"), 9, 0),
             Decl("var", 3, 3, Nm("a"), 22, 22),
             Ref(3, Nm("a"), 33),
             Decl("var", 4, 4, Nm("b"), 45, 45),
             Ref(4, Nm("b"), 56)>>]

\* let a = 0; a = 1;
ProgTwice ==
  [scopes |-> <<Sc(0, "Program", 17)>>,
   ids |-> <<Decl("var", 1, 1, Nm("a"), 4, 4),
             Asg(1, Nm("a"), 11)>>]

\* try { 0; } catch (e) {} { let b = 0 } { let c = 0 } { let d = 0 }
\* try { 0; } catch (eee) {}
ProgFive ==
  [scopes |-> <<Sc(0, "Program", 91), Sc(1, "CatchClause", 12), Sc(1, "Block", 13),
                Sc(1, "Block", 13), Sc(1, "Block", 13), Sc(1, "CatchClause", 14)>>,
   ids |-> <<Id("decl", "catch", 2, 2, Nm("e"), 18, 11, TRUE),
             Decl("var", 3, 3, Nm("b"), 30, 30),
             Decl("var", 4, 4, Nm("c"), 44, 44),
             Decl("var", 5, 5, Nm("d"), 58, 58),
             Id("decl", "catch", 6, 6, Nm("eee"), 84, 77, TRUE)>>]

Programs ==
  <<ProgOuterInner, ProgShadow, ProgReassign, ProgBlocks, ProgCatch, ProgThree, ProgMerge,
    ProgTwice, ProgFive>>

Idents(T) == DOMAIN T.ids

\* The names of the source text the tree T was parsed from.
SourceNames(T) == [i \in Idents(T) |-> T.ids[i].name]

\* scope.getBinding(name) from scope s in the tree with current names nm: the
\* declaring identifier of the nearest binding of that name, 0 when none.
RECURSIVE getBinding(_, _, _, _)
getBinding(T, nm, s, name) ==
  IF s = 0 THEN 0
  ELSE LET own == {i \in Idents(T) : /\ T.ids[i].role = "decl"
                                     /\ T.ids[i].bscope = s
                                     /\ nm[i] = name}
       IN IF own # {} THEN Min(own) ELSE getBinding(T, nm, T.scopes[s].parent, name)

hasBinding(T, nm, s, name) == getBinding(T, nm, s, name) # 0

\* scope.rename(oldName, newName) from scope s: the binding found by name is
\* renamed together with every identifier that resolves to it.
scopeRename(T, nm, s, oldName, newName) ==
  LET b == getBinding(T, nm, s, oldName) IN
  IF b = 0 THEN nm
  ELSE [i \in Idents(T) |->
          IF \/ i = b
             \/ /\ T.ids[i].role # "decl"
                /\ nm[i] = oldName
                /\ getBinding(T, nm, T.ids[i].scope, oldName) = b
          THEN newName ELSE nm[i]]

\* ------------------------------------------------- scope analysis, grouping
\* The binding identifiers the traversal of findScopes visits.
BindingIdentifiers(T) == {i \in Idents(T) : T.ids[i].role \in {"decl", "assign"}}

getDeclarationIdentifierPath(T, nm, i) ==
  LET b == getBinding(T, nm, T.ids[i].scope, nm[i]) IN
  IF b # 0 /\ T.ids[b].key = "param" THEN b ELSE i

\* The nodes of S in the order of their start offsets.
RECURSIVE SortByStart(_, _)
SortByStart(T, S) ==
  IF S = {} THEN <<>>
  ELSE LET i == CHOOSE x \in S : \A y \in S : T.ids[x].start <= T.ids[y].start
       IN <<i>> \o SortByStart(T, S \ {i})

\* Distinct declaration paths, in source order.
findScopes(T, nm) ==
  SortByStart(T, {getDeclarationIdentifierPath(T, nm, i) : i \in BindingIdentifiers(T)})

\* The scope whose node is getGroupingScopePath(path).node.
getGroupingScopePath(T, nm, i) ==
  LET d == getDeclarationIdentifierPath(T, nm, i) IN
  IF T.ids[d].key = "fnId" THEN T.ids[d].scope
  ELSE LET b == getBinding(T, nm, T.ids[d].scope, nm[d]) IN
       IF b # 0 THEN T.ids[b].bscope ELSE T.ids[d].scope

getScopePositionKey(T, nm, i) == getGroupingScopePath(T, nm, i)

getScopeSize(T, nm, i) == T.scopes[getGroupingScopePath(T, nm, i)].size

\* Groups in the order in which their keys first occur.
RECURSIVE groupByScopePosition(_, _, _)
groupByScopePosition(T, nm, scopes) ==
  IF scopes = <<>> THEN <<>>
  ELSE LET n == Len(scopes)
           rest == groupByScopePosition(T, nm, SubSeq(scopes, 1, n - 1))
           k == getScopePositionKey(T, nm, scopes[n])
           hit == {j \in DOMAIN rest : rest[j].scopeKey = <<k>>}
       IN IF hit = {}
          THEN Append(rest, [identifiers |-> <<scopes[n]>>, scopeKey |-> <<k>>])
          ELSE LET j == CHOOSE x \in hit : TRUE
               IN [rest EXCEPT ![j].identifiers = Append(@, scopes[n])]

\* Array.prototype.sort is stable: a group goes after every group that is not larger.
RECURSIVE InsertBySize(_, _, _, _)
InsertBySize(T, nm, g, s) ==
  IF s = <<>> THEN <<g>>
  ELSE IF getScopeSize(T, nm, g.identifiers[1]) < getScopeSize(T, nm, Head(s).identifiers[1])
       THEN <<g>> \o s
       ELSE <<Head(s)>> \o InsertBySize(T, nm, g, Tail(s))

\* A faulty engine that leaves the groups in source order.
keepGroupOrder(T, nm, groups) == groups

RECURSIVE sortGroupsByScopeSize(_, _, _)
sortGroupsByScopeSize(T, nm, groups) ==
  IF groups = <<>> THEN <<>>
  ELSE LET n == Len(groups)
       IN InsertBySize(T, nm, groups[n],
                       sortGroupsByScopeSize(T, nm, SubSeq(groups, 1, n - 1)))

\* A faulty filter that passes every identifier on to the visitor.
skipNothing(T, i) == FALSE

\* Lines 1001-1009.
shouldSkipIdentifierForLLM(T, i) == T.ids[i].key = "catch" /\ T.ids[i].empty

\* The nearest program or function that encloses the node.
RECURSIVE BoundaryScope(_, _)
BoundaryScope(T, s) ==
  IF T.scopes[s].kind \in {"Program", "Function"} \/ T.scopes[s].parent = 0 THEN s
  ELSE BoundaryScope(T, T.scopes[s].parent)

getMergeBoundaryKey(T, i) == BoundaryScope(T, T.ids[i].scope)

MergeDistance == 5000

Abs(x) == IF x < 0 THEN -x ELSE x

EmptyPending ==
  [merged |-> <<>>, pendingIdentifiers |-> <<>>, pendingScopeKeys |-> <<>>,
   pendingNames |-> {}, pendingBoundaryKey |-> 0, pendingLastStart |-> 0]

flushPending(a) ==
  IF a.pendingIdentifiers = <<>> THEN a
  ELSE [EmptyPending EXCEPT
          !.merged = Append(a.merged, [identifiers |-> a.pendingIdentifiers,
                                       scopeKey |-> a.pendingScopeKeys])]

\* A faulty merger that does not compare the boundaries.
boundaryNeverMismatch(some, groupBoundaryKey, pendingBoundaryKey) == FALSE

\* Lines 981-983.
boundaryMismatch(some, groupBoundaryKey, pendingBoundaryKey) ==
  some /\ groupBoundaryKey # pendingBoundaryKey

\* One iteration of the loop of mergeSmallScopeGroups.
MergeStep(T, nm, a, group, maxBatchSize, smallScopeMergeLimit) ==
  LET ids == group.identifiers
      flushedPush == LET f == flushPending(a) IN [f EXCEPT !.merged = Append(@, group)]
      groupBoundaryKey == getMergeBoundaryKey(T, ids[1])
      groupStart == T.ids[ids[1]].start
      groupNames == {nm[ids[j]] : j \in DOMAIN ids}
      some == a.pendingIdentifiers # <<>>
      hasNameConflict == groupNames \cap a.pendingNames # {}
      wouldExceedBatchSize == some /\ Len(a.pendingIdentifiers) + Len(ids) > maxBatchSize
      tooFarFromPrevious == some /\ Abs(groupStart - a.pendingLastStart) > MergeDistance
      b == IF \/ hasNameConflict
              \/ wouldExceedBatchSize
              \/ boundaryMismatch(some, groupBoundaryKey, a.pendingBoundaryKey)
              \/ tooFarFromPrevious
           THEN flushPending(a) ELSE a
  IN IF Len(ids) > smallScopeMergeLimit THEN flushedPush
     ELSE IF \E j \in DOMAIN ids : shouldSkipIdentifierForLLM(T, ids[j]) THEN flushedPush
     ELSE [b EXCEPT !.pendingIdentifiers = @ \o ids,
                    !.pendingScopeKeys = @ \o group.scopeKey,
                    !.pendingNames = @ \cup groupNames,
                    !.pendingBoundaryKey = groupBoundaryKey,
                    !.pendingLastStart = groupStart]

RECURSIVE MergeLoop(_, _, _, _, _)
MergeLoop(T, nm, groups, maxBatchSize, smallScopeMergeLimit) ==
  IF groups = <<>> THEN EmptyPending
  ELSE LET n == Len(groups)
       IN MergeStep(T, nm,
                    MergeLoop(T, nm, SubSeq(groups, 1, n - 1), maxBatchSize,
                              smallScopeMergeLimit),
                    groups[n], maxBatchSize, smallScopeMergeLimit)

mergeSmallScopeGroups(T, nm, groups, maxBatchSize, smallScopeMergeLimit) ==
  IF smallScopeMergeLimit <= 0 THEN groups
  ELSE flushPending(MergeLoop(T, nm, groups, maxBatchSize, smallScopeMergeLimit)).merged

\* The batches one group yields: a batch is cut whenever maxBatchSize
\* identifiers have been collected.  With maxBatchSize <= 0 the empty list is
\* already full and every identifier is passed over (lines 1029-1032).
\* A faulty generator that never cuts a group.
SplitGroupWhole(identifiers, scopeKey, maxBatchSize) ==
  IF identifiers = <<>> \/ maxBatchSize <= 0 THEN <<>>
  ELSE <<[identifiers |-> identifiers, scopeKey |-> scopeKey]>>

RECURSIVE SplitGroup(_, _, _)
SplitGroup(identifiers, scopeKey, maxBatchSize) ==
  IF identifiers = <<>> \/ maxBatchSize <= 0 THEN <<>>
  ELSE IF Len(identifiers) <= maxBatchSize
       THEN <<[identifiers |-> identifiers, scopeKey |-> scopeKey]>>
       ELSE <<[identifiers |-> SubSeq(identifiers, 1, maxBatchSize), scopeKey |-> scopeKey]>>
            \o SplitGroup(SubSeq(identifiers, maxBatchSize + 1, Len(identifiers)),
                          scopeKey, maxBatchSize)

\* Everything the generator yields, in order.
RECURSIVE splitOversizedGroupsGenerator(_, _)
splitOversizedGroupsGenerator(groups, maxBatchSize) ==
  IF groups = <<>> THEN <<>>
  ELSE SplitGroup(Head(groups).identifiers, Head(groups).scopeKey, maxBatchSize)
       \o splitOversizedGroupsGenerator(Tail(groups), maxBatchSize)

groupsToProcess(T, nm, maxBatchSize, smallScopeMergeLimit) ==
  mergeSmallScopeGroups(T, nm,
    sortGroupsByScopeSize(T, nm, groupByScopePosition(T, nm, findScopes(T, nm))),
    maxBatchSize, smallScopeMergeLimit)

\* A faulty total that counts the groups.
CountGroups(groups) == Len(groups)

\* Lines 180-183: totalIdentifiers.
RECURSIVE CountIdentifiers(_)
CountIdentifiers(groups) ==
  IF groups = <<>> THEN 0
  ELSE Len(Head(groups).identifiers) + CountIdentifiers(Tail(groups))

\* ------------------------------------------------------------ visited keys
getVisitedKey(T, nm, i, name) ==
  LET b1 == getBinding(T, nm, T.ids[i].scope, name)
      binding == IF b1 # 0 THEN b1 ELSE getBinding(T, nm, T.ids[i].scope, nm[i])
      scopeIdentity == IF binding # 0 THEN T.ids[binding].bscope ELSE T.ids[i].scope
      declarationStart == IF binding # 0 THEN T.ids[binding].bstart ELSE T.ids[i].start
  IN <<scopeIdentity, name, declarationStart>>

hasVisited(T, nm, i, visited) == getVisitedKey(T, nm, i, nm[i]) \in visited

markVisited(T, nm, i, originalName, visited) ==
  visited \cup {getVisitedKey(T, nm, i, originalName)}

\* ------------------------------------------------------------ resume files
ResumePath == "out.js"
FilePath == "in.js"
\* Two files of one bundle.
ChunkA == "chunks/8010.js"
ChunkB == "chunks/94574.js"
RESUME_STATE_SUFFIX == ".humanify-resume.json"

\* path.resolve of a path relative to the working directory /w.
Resolve(p) == "/w/" \o p

\* createHash("md5").update(text).digest("hex").slice(0, 8), tabulated for the
\* texts of the paths explored.
Md5Slice(text) ==
  CASE text = "/w/out.js" -> "22097b64"
    [] text = "/w/out.js::/w/in.js" -> "04781dca"
    [] text = "/w/out.js::/w/chunks/8010.js" -> "24b55e3e"
    [] text = "/w/out.js::/w/chunks/94574.js" -> "24b55e3e"

resolveResumeStatePath(codePath) ==
  "." \o codePath \o "." \o Md5Slice(Resolve(codePath)) \o RESUME_STATE_SUFFIX

resolveResumeSessionPath(resumePath, filePath) ==
  IF filePath = "" THEN resolveResumeStatePath(resumePath)
  ELSE "." \o resumePath \o "." \o Md5Slice(Resolve(resumePath) \o "::" \o Resolve(filePath))
       \o RESUME_STATE_SUFFIX

FilePaths == {FilePath, ChunkA, ChunkB}

Paths == {ResumePath, resolveResumeStatePath(ResumePath)} \cup FilePaths
           \cup {resolveResumeSessionPath(ResumePath, f) : f \in FilePaths}

NoState == [code |-> <<>>, renames |-> {}, visited |-> {}, currentIndex |-> 0,
            totalScopes |-> 0, codePath |-> ""]

\* What typeof and Array.isArray see of a field of a parsed file: "missing",
\* "string", "number", "object", "strings" (an array of strings), "numbers"
\* (an array of numbers).
TypeTags == {"missing", "string", "number", "strings", "numbers", "object"}
Fields == {"code", "renames", "visited", "currentIndex", "totalScopes", "codePath"}

\* The interface ResumeState.
GoodShape ==
  [code |-> "string", renames |-> "strings", visited |-> "strings",
   currentIndex |-> "number", totalScopes |-> "number", codePath |-> "string"]
NoShape == [f \in Fields |-> "missing"]

\* A file: kind "absent" (readFile throws), "text" (JSON.parse throws),
\* "corrupt" (JSON that is no object), "partial" (the beginning of a JSON
\* text) or "json" (an object whose fields have the types of shape).
Absent == [kind |-> "absent", shape |-> NoShape, state |-> NoState]
UserText == [kind |-> "text", shape |-> NoShape, state |-> NoState]
StateFile(st) == [kind |-> "json", shape |-> GoodShape, state |-> st]
Corrupt == [kind |-> "corrupt", shape |-> NoShape, state |-> NoState]
Partial == [kind |-> "partial", shape |-> NoShape, state |-> NoState]

\* The files before the first run: the user's code at the resume path and at
\* the input path, no sidecar.
UserFiles == [p \in Paths |-> IF p \in {ResumePath} \cup FilePaths THEN UserText ELSE Absent]

\* A file holds a resume state iff it parses as JSON of the ResumeState shape.
isResumeState(file) ==
  /\ file.kind = "json"
  /\ file.shape.code = "string"
  /\ file.shape.renames \in {"strings", "numbers"}
  /\ file.shape.visited \in {"strings", "numbers"}
  /\ file.shape.currentIndex = "number"
  /\ file.shape.totalScopes = "number"
  /\ file.shape.codePath = "string"

\* null is NoState under kind "absent".
loadResumeState(disk, savePath) ==
  IF savePath \in DOMAIN disk /\ isResumeState(disk[savePath]) THEN disk[savePath]
  ELSE Absent

\* A faulty engine that writes the state over the file at the resume path.
saveResumeStateOverCode(disk, state, savePath) ==
  [disk EXCEPT ![ResumePath] = StateFile(state)]

\* fs.writeFile(savePath, JSON.stringify(state))
saveResumeState(disk, state, savePath) == [disk EXCEPT ![savePath] = StateFile(state)]

\* fs.unlink(savePath), errors ignored
deleteResumeState(disk, savePath) == [disk EXCEPT ![savePath] = Absent]

\* ------------------------------------------------------------------ engine
NoCheckpointInterval == 200
MergeLimits == {-1, 0, 2}
ResumeModes == {<<"", "">>, <<ResumePath, "">>, <<ResumePath, FilePath>>, <<ResumePath, ChunkB>>}

VARIABLES
  prog,                 \* the program given as code
  cfg,                  \* the arguments of batchVisitAllIdentifiersGrouped
  pc,                   \* "init", "prep", "await", "done", "rejected", "visitorError"
  ast,                  \* the current name of every identifier node
  renames, visited, currentIndex, currentCodeSnapshot, astDirty,
  totalIdentifiers, processedCount, groupIndex,
  stream, genPos,       \* what groupGenerator yields, and how much of it was taken
  pending,              \* the prepared groups of the cohort
  inFlight,             \* visitor calls launched and not settled
  renameMaps,           \* the settled results, by position in pending
  applyIdx,             \* how many items of the cohort have been applied
  disk,                 \* the files
  output,               \* the returned source
  runNo, interrupted, refOut, memo,
  sent, launchLog, applyLog, doneOrder, clash,
  renameLog,            \* the renames of this run: binding and applied name, in order
  ones,                 \* how often this run has called onProgress with the value 1
  unsaved,              \* batches that changed the tree since the last write of the sidecar
  found,                \* what the session paths hold when the behaviour begins
  single,               \* the memory of visitAllIdentifiers
  context,              \* the lengths of the last context scopesToString returned
  decorated,            \* the identifier nodes that carry a "Rename this" comment
  loop                  \* the collision loop of applyRenameMap, taken by itself

engineVars == <<ast, renames, visited, currentIndex, currentCodeSnapshot, astDirty,
                totalIdentifiers, processedCount, groupIndex, stream, genPos, pending,
                inFlight, renameMaps, applyIdx>>
historyVars == <<sent, launchLog, applyLog, doneOrder, clash, renameLog, ones, unsaved>>
vars == <<prog, cfg, found, loop, context, decorated, single, pc, engineVars, disk, output, runNo, interrupted, refOut, memo,
          historyVars>>

Tree == Programs[prog]

\* The two derivations of the sidecar path, computed once for the arguments
\* explored.
SessionPathOf == [r \in ResumeModes |-> resolveResumeSessionPath(r[1], r[2])]
LegacyPathOf == [r \in ResumeModes |-> resolveResumeStatePath(r[1])]

resumeCodePath == cfg.resume
sessionId ==
  IF resumeCodePath # "" THEN SessionPathOf[<<resumeCodePath, cfg.filePath>>] ELSE ""
legacySessionId ==
  IF resumeCodePath # "" THEN LegacyPathOf[<<resumeCodePath, cfg.filePath>>] ELSE ""

\* What the session paths hold when the behaviour begins: nothing, a file at
\* the session path that fails isResumeState, or a state an earlier version
\* left at the legacy path before it had renamed anything.
\* or a JSON object at the session path in which one field is missing or has
\* another type than ResumeState gives it.
FaultName == [f \in Fields |-> [t \in TypeTags |-> f \o ":" \o t]]
\* Every field missing, of the other primitive type, and (the arrays) with
\* numbers for elements.
WrongTags(f) ==
  {"missing"} \cup (IF GoodShape[f] = "string" THEN {"number"}
                    ELSE IF GoodShape[f] = "number" THEN {"string"}
                    ELSE {"string", "numbers"})
Faults == {x \in Fields \X TypeTags : x[2] \in WrongTags(x[1])}
Found == {"nothing", "corrupt", "legacy", "chunkA"} \cup {FaultName[x[1]][x[2]] : x \in Faults}

\* The number 1 as an element of renames and of visited: no name, no key.
NumberAsName == Nm("1")
NumberAsKey == <<0, Nm("1"), 0>>

\* The object found at the session path when found names a fault.
FaultyFile ==
  LET x == CHOOSE x \in Faults : FaultName[x[1]][x[2]] = found
      shape == [GoodShape EXCEPT ![x[1]] = x[2]]
  IN [kind |-> "json", shape |-> shape,
      state |-> [code |-> SourceNames(Programs[prog]),
                 renames |-> IF shape.renames = "numbers" THEN {NumberAsName} ELSE {},
                 visited |-> IF shape.visited = "numbers" THEN {NumberAsKey} ELSE {},
                 currentIndex |-> 0,
                 totalScopes |-> Cardinality(BindingIdentifiers(Programs[prog])),
                 codePath |-> ResumePath]]

LegacyState ==
  [code |-> SourceNames(Tree), renames |-> {}, visited |-> {}, currentIndex |-> 0,
   totalScopes |-> Cardinality(BindingIdentifiers(Tree)), codePath |-> ResumePath]

\* The checkpoint an interrupted run for ChunkA, a file of the same text, wrote
\* after its first batch, for which its visitor answered the names it was given.
CheckpointOfChunkA ==
  LET code == SourceNames(Tree)
      first == Head(splitOversizedGroupsGenerator(groupsToProcess(Tree, code, MaxBatch, 0),
                                                  MaxBatch)).identifiers
  IN [code |-> code, renames |-> {},
      visited |-> {getVisitedKey(Tree, code, first[j], code[first[j]]) : j \in DOMAIN first},
      currentIndex |-> Len(first),
      totalScopes |-> Cardinality(BindingIdentifiers(Tree)), codePath |-> ChunkA]

FilesAtStartup ==
  [p \in Paths |->
     IF found = "corrupt" /\ p = sessionId THEN Corrupt
     ELSE IF found = "chunkA" /\ p = resolveResumeSessionPath(ResumePath, ChunkA)
     THEN StateFile(CheckpointOfChunkA)
     ELSE IF found \notin {"nothing", "corrupt", "legacy", "chunkA"} /\ p = sessionId
     THEN FaultyFile
     ELSE IF found = "legacy" /\ p = legacySessionId THEN StateFile(LegacyState)
     ELSE UserFiles[p]]

\* The arguments the runs that find a file are explored with.
UsualArguments ==
  /\ cfg.resume # ""
  /\ ~cfg.uniqueNames
  /\ cfg.batchConcurrency = 1 /\ cfg.dirtyCheckpointInterval = 1
  /\ cfg.maxBatchSize = MaxBatch /\ cfg.smallScopeMergeLimit = 0

\* visitAllIdentifiers has not been called.
NoSingle ==
  [scopes |-> <<>>, i |-> 0, ast |-> <<>>, renames |-> {}, visited |-> {},
   calls |-> <<>>, renameLog |-> <<>>, output |-> <<>>]

\* The binding a node belongs to in the source text.
OrigBinding(T, i) ==
  IF T.ids[i].role = "decl" THEN i
  ELSE getBinding(T, SourceNames(T), T.ids[i].scope, T.ids[i].name)

Bindings(T) == {i \in Idents(T) : T.ids[i].role = "decl"}

ZeroSent == [b \in Bindings(Tree) |-> 0]

\* the collision loop has not been entered
NoLoop == [at |-> "none", safeRenamed |-> <<>>, bound |-> {}, renames |-> {}, odd |-> FALSE]

\* no context was rendered
NoContext == [contextWindowSize |-> 0, identifiers |-> 0, code |-> 0, snippets |-> 0,
              length |-> 0]

InitEngine ==
  /\ prog \in DOMAIN Programs
  /\ cfg \in {[uniqueNames |-> u, batchConcurrency |-> c, dirtyCheckpointInterval |-> d,
               maxBatchSize |-> b, smallScopeMergeLimit |-> l, resume |-> r[1],
               filePath |-> r[2]] :
                u \in BOOLEAN, c \in 0..MaxConcurrency, d \in {0, 1, MaxInterval},
                b \in 0..MaxBatch, l \in MergeLimits, r \in ResumeModes}
  \* the program of one scope and the program of the merger are run without a
  \* resume path
  /\ Tree \in {ProgThree, ProgMerge, ProgTwice} => cfg.resume = ""
  \* the program of five batches is run with a sidecar, two calls at a time and a
  \* checkpoint every second batch
  /\ Tree = ProgFive =>
       /\ cfg.resume # "" /\ cfg.filePath = "" /\ ~cfg.uniqueNames
       /\ cfg.batchConcurrency = 2 /\ cfg.dirtyCheckpointInterval = 2
       /\ cfg.maxBatchSize = 2 /\ cfg.smallScopeMergeLimit = 0
  \* small scopes are merged in the calls without a sidecar
  /\ cfg.smallScopeMergeLimit > 0 => cfg.resume = ""
  \* without a resume path no checkpoint is written, whatever the interval
  /\ cfg.resume = "" => cfg.dirtyCheckpointInterval <= 1
  /\ pc = "init"
  /\ ast = SourceNames(Tree)
  /\ renames = {} /\ visited = {} /\ currentIndex = 0
  /\ currentCodeSnapshot = SourceNames(Tree)
  /\ astDirty = FALSE
  /\ totalIdentifiers = 0 /\ processedCount = 0 /\ groupIndex = 0
  /\ stream = <<>> /\ genPos = 0
  /\ pending = <<>> /\ inFlight = {} /\ renameMaps = <<>> /\ applyIdx = 0
  /\ found \in Found
  /\ found # "nothing" => UsualArguments
  /\ Tree = ProgFive => found = "nothing"
  /\ found = "legacy" => legacySessionId # sessionId
  \* the faults of shape are explored with one program and one derivation
  /\ found \notin {"nothing", "corrupt", "legacy", "chunkA"} => prog = 1 /\ cfg.filePath = ""
  \* the run for ChunkB is the one that finds the checkpoint of the run for ChunkA
  /\ cfg.filePath = ChunkB <=> found = "chunkA"
  /\ found = "chunkA" => prog = 1
  /\ disk = FilesAtStartup
  /\ output = <<>>
  /\ single = NoSingle
  /\ context = NoContext
  /\ decorated = {}
  /\ renameLog = <<>> /\ ones = 0 /\ unsaved = 0
  /\ runNo = 1 /\ interrupted = FALSE /\ refOut = <<>> /\ memo = {}
  /\ sent = ZeroSent /\ launchLog = <<>> /\ applyLog = <<>> /\ doneOrder = <<>>
  /\ clash = FALSE

Init == InitEngine /\ loop = NoLoop

\* The memory the steps of a run work on.
Mem == [ast |-> ast, astDirty |-> astDirty, currentCodeSnapshot |-> currentCodeSnapshot,
        renames |-> renames, visited |-> visited, processedCount |-> processedCount,
        groupIndex |-> groupIndex, disk |-> disk, clash |-> clash,
        renameLog |-> renameLog, ones |-> ones, unsaved |-> unsaved]

SetMem(m) ==
  /\ ast' = m.ast /\ astDirty' = m.astDirty
  /\ currentCodeSnapshot' = m.currentCodeSnapshot
  /\ renames' = m.renames /\ visited' = m.visited
  /\ processedCount' = m.processedCount /\ groupIndex' = m.groupIndex
  /\ disk' = m.disk /\ clash' = m.clash
  /\ renameLog' = m.renameLog /\ ones' = m.ones /\ unsaved' = m.unsaved

\* The state found at startup: the session path, then the two legacy paths.
LoadFrom(files) ==
  LET first == loadResumeState(files, sessionId)
      second == IF ~isResumeState(first) /\ legacySessionId # "" /\ legacySessionId # sessionId
                THEN loadResumeState(files, legacySessionId) ELSE first
      third == IF ~isResumeState(second) /\ resumeCodePath # ""
               THEN loadResumeState(files, resumeCodePath) ELSE second
  IN IF sessionId # "" THEN third ELSE Absent

LoadAtStartup == LoadFrom(disk)

\* A faulty engine that checks no argument.
AnyArguments == TRUE

\* Lines 99-114: the checks made before anything else.
ValidArguments ==
  /\ ~(cfg.maxBatchSize <= 0)
  /\ ~(cfg.batchConcurrency <= 0)
  /\ ~(cfg.dirtyCheckpointInterval <= 0)
  /\ ~(cfg.smallScopeMergeLimit < 0)

\* Lines 99-114: an argument is out of range and the call throws.
RejectArguments ==
  /\ pc = "init"
  /\ ~ValidArguments
  /\ pc' = "rejected"
  /\ UNCHANGED <<prog, cfg, found, loop, context, decorated, single, engineVars, disk, output, runNo, interrupted, refOut, memo,
                 historyVars>>

\* Lines 116-190: load or start fresh, find and group the bindings.
Start ==
  /\ pc = "init"
  /\ ValidArguments
  /\ LET resumeState == LoadAtStartup
         resumed == isResumeState(resumeState)
         code == IF resumed THEN resumeState.state.code ELSE SourceNames(Tree)
         groups == groupsToProcess(Tree, code, cfg.maxBatchSize, cfg.smallScopeMergeLimit)
     IN /\ ast' = code
        /\ currentCodeSnapshot' = code
        /\ renames' = IF resumed THEN resumeState.state.renames ELSE {}
        /\ visited' = IF resumed THEN resumeState.state.visited ELSE {}
        /\ currentIndex' = IF resumed THEN resumeState.state.currentIndex ELSE 0
        /\ totalIdentifiers' = CountIdentifiers(groups)
        /\ stream' = splitOversizedGroupsGenerator(groups, cfg.maxBatchSize)
  /\ astDirty' = FALSE /\ processedCount' = 0 /\ groupIndex' = 0 /\ genPos' = 0
  /\ pending' = <<>> /\ inFlight' = {} /\ renameMaps' = <<>> /\ applyIdx' = 0
  /\ pc' = "prep"
  /\ sent' = ZeroSent /\ launchLog' = <<>> /\ applyLog' = <<>> /\ doneOrder' = <<>>
  /\ renameLog' = <<>> /\ ones' = 0 /\ unsaved' = 0
  /\ UNCHANGED <<prog, cfg, found, loop, context, decorated, single, disk, output, runNo, interrupted, refOut, memo, clash>>

\* Lines 195-197: the call does not return early.
checkpointDue(m) ==
  LET checkpointInterval ==
        IF m.astDirty THEN cfg.dirtyCheckpointInterval ELSE NoCheckpointInterval
  IN /\ sessionId # ""
     /\ ~(m.groupIndex % checkpointInterval # 0 /\ m.processedCount # totalIdentifiers)

\* A faulty engine that never writes the sidecar.
saveProgressNever(m) == m

\* Lines 194-217.
saveProgressIfNeeded(m) ==
  LET snapshot == IF m.astDirty THEN m.ast ELSE m.currentCodeSnapshot
      resumeState ==
        [code |-> snapshot, renames |-> m.renames, visited |-> m.visited,
         currentIndex |-> m.processedCount, totalScopes |-> totalIdentifiers,
         codePath |-> IF cfg.filePath # "" THEN cfg.filePath ELSE resumeCodePath]
  IN IF ~checkpointDue(m) THEN m
          ELSE [m EXCEPT !.currentCodeSnapshot = snapshot,
                         !.astDirty = FALSE,
                         !.unsaved = 0,
                         !.disk = saveResumeState(m.disk, resumeState, sessionId)]

\* The batchConcurrency of the run under way: the third run of a behaviour is the
\* call repeated with batchConcurrency 1 and the other arguments unchanged.
batchConcurrency == IF runNo = 3 THEN 1 ELSE cfg.batchConcurrency

\* ---- nextPreparedGroup, one pass of its loop per step
CanTake ==
  /\ pc = "prep"
  /\ Len(pending) < batchConcurrency
  /\ genPos < Len(stream)

NextGroup == stream[genPos + 1]

unvisitedIdentifiers ==
  SelectSeq(NextGroup.identifiers, LAMBDA i : ~hasVisited(Tree, ast, i, visited))

filteredIdentifiers ==
  SelectSeq(unvisitedIdentifiers, LAMBDA i : ~shouldSkipIdentifierForLLM(Tree, i))

\* visited after the low-signal identifiers of the group have been marked
VisitedAfterSkips ==
  visited \cup {getVisitedKey(Tree, ast, unvisitedIdentifiers[j], ast[unvisitedIdentifiers[j]]) :
                  j \in {k \in DOMAIN unvisitedIdentifiers :
                           shouldSkipIdentifierForLLM(Tree, unvisitedIdentifiers[k])}}

\* A faulty engine that sends every identifier of the batch.
everyIdentifier(nm, identifiers) == identifiers

\* The first identifier of every name, in order (uniqueIdentifierByName).
uniqueByName(nm, identifiers) ==
  SelectSeq(identifiers,
            LAMBDA i : \A j \in DOMAIN identifiers :
                         (nm[identifiers[j]] = nm[i] /\ identifiers[j] # i)
                           => (CHOOSE k \in DOMAIN identifiers : identifiers[k] = i) < j)

\* Whether onProgress(processedCount / totalIdentifiers) reports the value 1.
reportsOne(count) == IF count = totalIdentifiers THEN 1 ELSE 0

\* The group is counted; onProgress is called with the new fraction.
Counted(m, n) ==
  [m EXCEPT !.processedCount = @ + n, !.groupIndex = @ + 1,
            !.ones = @ + reportsOne(m.processedCount + n)]

\* Lines 235-240: a group that the state loaded at startup had counted.
SkipResumed ==
  /\ CanTake
  /\ processedCount < currentIndex
  /\ processedCount' = processedCount + Len(NextGroup.identifiers)
  /\ groupIndex' = groupIndex + 1
  /\ ones' = ones + reportsOne(processedCount + Len(NextGroup.identifiers))
  /\ genPos' = genPos + 1
  /\ UNCHANGED <<prog, cfg, found, loop, context, decorated, single, pc, ast, renames, visited, currentIndex,
                 currentCodeSnapshot, astDirty, totalIdentifiers, stream, pending, inFlight,
                 renameMaps, applyIdx, disk, output, runNo, interrupted, refOut, memo, sent,
                 launchLog, applyLog, doneOrder, clash, renameLog, unsaved>>

\* Lines 243-250: every identifier of the group is visited already.
SkipVisited ==
  /\ CanTake
  /\ ~(processedCount < currentIndex)
  /\ unvisitedIdentifiers = <<>>
  /\ SetMem(saveProgressIfNeeded(Counted(Mem, Len(NextGroup.identifiers))))
  /\ genPos' = genPos + 1
  /\ UNCHANGED <<prog, cfg, found, loop, context, decorated, single, pc, currentIndex, totalIdentifiers, stream, pending, inFlight,
                 renameMaps, applyIdx, output, runNo, interrupted, refOut, memo, sent,
                 launchLog, applyLog, doneOrder>>

\* Lines 252-268: every unvisited identifier of the group is low-signal.
SkipFiltered ==
  /\ CanTake
  /\ ~(processedCount < currentIndex)
  /\ unvisitedIdentifiers # <<>>
  /\ filteredIdentifiers = <<>>
  /\ SetMem(saveProgressIfNeeded(
              Counted([Mem EXCEPT !.visited = VisitedAfterSkips],
                      Len(NextGroup.identifiers))))
  /\ genPos' = genPos + 1
  /\ UNCHANGED <<prog, cfg, found, loop, context, decorated, single, pc, currentIndex, totalIdentifiers, stream, pending, inFlight,
                 renameMaps, applyIdx, output, runNo, interrupted, refOut, memo, sent,
                 launchLog, applyLog, doneOrder>>

\* Lines 270-288: the group is prepared for the visitor.
\* The "Rename this NAME" comments of the context text. addComment puts the
\* comment on the node of the identifier, `node.trailingComments = []` takes
\* every trailing comment off it.
addComment(comments, identifier) == comments \cup {identifier}
keepTrailingComments(comments, identifier) == comments
clearTrailingComments(comments, identifier) == comments \ {identifier}

RECURSIVE addComments(_, _)
addComments(comments, identifiers) ==
  IF identifiers = <<>> THEN comments
  ELSE addComments(addComment(comments, Head(identifiers)), Tail(identifiers))

RECURSIVE restoreIdentifiers(_, _)
restoreIdentifiers(comments, identifiers) ==
  IF identifiers = <<>> THEN comments
  ELSE restoreIdentifiers(clearTrailingComments(comments, Head(identifiers)),
                          Tail(identifiers))

\* expandScopeIfInsufficientAST prints the scope while every target carries its
\* comment (lines 424-428) and restores the targets on each of its returns
commentsInContext(comments, identifiers) == addComments(comments, identifiers)
commentsAfterExpand(comments, identifiers) ==
  restoreIdentifiers(addComments(comments, identifiers), identifiers)

\* the loop of lines 800-806: comment, snippet, restore, one target at a time
RECURSIVE commentsAfterSnippets(_, _)
commentsAfterSnippets(comments, identifiers) ==
  IF identifiers = <<>> THEN comments
  ELSE commentsAfterSnippets(
         clearTrailingComments(addComment(comments, Head(identifiers)), Head(identifiers)),
         Tail(identifiers))

commentsAfterContext(comments, identifiers) ==
  commentsAfterSnippets(commentsAfterExpand(comments, identifiers), identifiers)

Prepare ==
  /\ CanTake
  /\ ~(processedCount < currentIndex)
  /\ filteredIdentifiers # <<>>
  /\ LET uniqueIdentifiers == uniqueByName(ast, filteredIdentifiers)
         identifierNames == [j \in DOMAIN uniqueIdentifiers |-> ast[uniqueIdentifiers[j]]]
     IN /\ pending' = Append(pending, [pos |-> genPos + 1, group |-> NextGroup,
                                       uniqueIdentifiers |-> uniqueIdentifiers,
                                       identifierNames |-> identifierNames,
                                       annotated |-> commentsInContext(decorated,
                                                                       uniqueIdentifiers)])
        /\ decorated' = commentsAfterContext(decorated, uniqueIdentifiers)
  /\ visited' = VisitedAfterSkips
  /\ genPos' = genPos + 1
  /\ UNCHANGED <<prog, cfg, found, loop, context, single, pc, ast, renames, currentIndex, currentCodeSnapshot, astDirty,
                 totalIdentifiers, processedCount, groupIndex, stream, inFlight,
                 renameMaps, applyIdx, disk, output, runNo, interrupted, refOut, memo,
                 historyVars>>

\* ---- the visitor
\* The names the visitor proposes: in the runs of one small program with
\* uniqueNames also the name of a built-in global.
ProposedNames ==
  AnswerNames \cup (IF Tree = ProgTwice /\ cfg.uniqueNames THEN {Nm("Map")} ELSE {})

\* What a visitor may return for the names it is given: a map that holds any
\* of the names, each with itself or with a proposed name.
AnswerMaps(names) ==
  UNION {{m \in [K -> ProposedNames \cup K] : \A k \in K : m[k] \in ProposedNames \cup {k}} :
           K \in SUBSET Range(names)}

\* The visitor is a function of the names it is given: it answers a list of
\* names it has seen before as it did then.
VisitorAnswers(names) ==
  LET known == {p \in memo : p[1] = names} IN
  IF known # {} THEN {p[2] : p \in known} ELSE AnswerMaps(names)

\* A faulty engine that calls the visitor for the first prepared group only.
LaunchFirst(items) == {1}

\* Line 346: pending.map(...) calls the visitor for every prepared group.
LaunchSet(items) == DOMAIN items

\* Lines 341-347.
Launch ==
  /\ pc = "prep"
  /\ pending # <<>>
  /\ Len(pending) >= batchConcurrency \/ genPos >= Len(stream)
  /\ inFlight' = LaunchSet(pending)
  /\ renameMaps' = <<>>
  /\ doneOrder' = <<>>
  /\ applyIdx' = 0
  /\ pc' = "await"
  /\ sent' = [b \in Bindings(Tree) |->
                sent[b] + Cardinality({<<k, j>> \in UNION {{k} \X DOMAIN pending[k].uniqueIdentifiers
                                                            : k \in DOMAIN pending} :
                                         OrigBinding(Tree, pending[k].uniqueIdentifiers[j]) = b})]
  /\ launchLog' = launchLog \o [k \in DOMAIN pending |-> pending[k].pos]
  /\ UNCHANGED <<prog, cfg, found, loop, context, decorated, single, ast, renames, visited, currentIndex, currentCodeSnapshot,
                 astDirty, totalIdentifiers, processedCount, groupIndex, stream, genPos,
                 pending, disk, output, runNo, interrupted, refOut, memo, applyLog, clash,
                 renameLog, ones, unsaved>>

\* A visitor call settles, in any order.
Complete(k) ==
  /\ pc = "await"
  /\ k \in inFlight
  /\ \E m \in VisitorAnswers(pending[k].identifierNames) :
       /\ renameMaps' = (k :> m) @@ renameMaps
       /\ memo' = memo \cup {<<pending[k].identifierNames, m>>}
  /\ inFlight' = inFlight \ {k}
  /\ doneOrder' = Append(doneOrder, k)
  /\ UNCHANGED <<prog, cfg, found, loop, context, decorated, single, pc, ast, renames, visited, currentIndex, currentCodeSnapshot,
                 astDirty, totalIdentifiers, processedCount, groupIndex, stream, genPos,
                 pending, applyIdx, disk, output, runNo, interrupted, refOut, sent, launchLog,
                 applyLog, clash, renameLog, ones, unsaved>>

\* A visitor call throws (the promise it returned rejects): Promise.all at
\* line 345 rejects, nothing catches it, and batchVisitAllIdentifiersGrouped
\* rejects with it.  Failures are explored in the first run of a behaviour.
VisitorThrows(k) ==
  /\ pc = "await"
  /\ k \in inFlight
  /\ runNo = 1
  /\ pc' = "visitorError"
  /\ UNCHANGED <<prog, cfg, found, loop, context, decorated, single, engineVars, disk, output, runNo, interrupted, refOut, memo,
                 historyVars>>

\* ---- applyRenameMap
ReservedWords == {"class", "new", "var"}

\* @babel/types toIdentifier on a name made of identifier characters: a
\* reserved word gets a leading underscore.
toIdentifier(name) ==
  IF name[1] \in ReservedWords /\ name[2] = 0 THEN <<"_" \o name[1], 0>> ELSE name

\* A faulty loop condition that does not ask the scope for the name.
NameConflictsIgnoringScope(T, nm, rs, s, name, uniqueNames) ==
  \/ uniqueNames /\ name \in rs
  \/ name \in WEB_API_NAMES_LIST

\* A faulty loop condition that does not look at the names applied so far.
NameConflictsIgnoringRenames(T, nm, rs, s, name, uniqueNames) ==
  \/ hasBinding(T, nm, s, name)
  \/ name \in WEB_API_NAMES_LIST

\* Lines 304-309 and 312-316: the loop condition.
NameConflicts(T, nm, rs, s, name, uniqueNames) ==
  \/ uniqueNames /\ name \in rs
  \/ hasBinding(T, nm, s, name)
  \/ name \in WEB_API_NAMES_LIST

RECURSIVE SafeRenamed(_, _, _, _, _, _)
SafeRenamed(T, nm, rs, s, name, uniqueNames) ==
  IF NameConflicts(T, nm, rs, s, name, uniqueNames)
  THEN SafeRenamed(T, nm, rs, s, renameConflictIndentier(name), uniqueNames)
  ELSE name

\* Whether the scope of the binding that scope.rename is about to rename holds
\* a binding of the new name.
TargetScopeHolds(T, nm, s, oldName, newName) ==
  LET b == getBinding(T, nm, s, oldName) IN
  /\ b # 0
  /\ \E j \in Bindings(T) : j # b /\ T.ids[j].bscope = T.ids[b].bscope /\ nm[j] = newName

\* A faulty engine that renames whatever the visitor answers.
AnswerAlwaysRenames(newName, originalName) == TRUE

\* Line 300: the answer is a name, and another name than the binding has.
AnswerRenames(newName, originalName) == newName # Nm("") /\ newName # originalName

\* Lines 293-326: the body of the loop for one identifier.
ApplyOne(m, i, renameMap) ==
  LET T == Tree
      originalName == m.ast[i]
      newName == renameMap[originalName]
      s == T.ids[i].scope
      safeRenamed == SafeRenamed(T, m.ast, m.renames, s, toIdentifier(newName),
                                 cfg.uniqueNames)
      renamed == [m EXCEPT !.renames = @ \cup {safeRenamed},
                           !.renameLog = Append(@, [binding |-> getBinding(T, m.ast, s, originalName),
                                                    applied |-> safeRenamed]),
                           !.ast = scopeRename(T, m.ast, s, originalName, safeRenamed),
                           !.astDirty = TRUE,
                           !.clash = @ \/ TargetScopeHolds(T, m.ast, s, originalName,
                                                           safeRenamed)]
      after == IF AnswerRenames(newName, originalName) THEN renamed ELSE m
  IN IF originalName \notin DOMAIN renameMap THEN m
     ELSE [after EXCEPT !.visited = markVisited(T, after.ast, i, originalName, @)]

RECURSIVE applyRenameMap(_, _, _)
applyRenameMap(m, uniqueIdentifiers, renameMap) ==
  IF uniqueIdentifiers = <<>> THEN m
  ELSE applyRenameMap(ApplyOne(m, Head(uniqueIdentifiers), renameMap),
                      Tail(uniqueIdentifiers), renameMap)

\* A faulty engine that applies a result as soon as its own call has settled.
SettledAlone(k) == k \notin inFlight

\* A faulty engine that takes the results in the order the calls settled.
CompletionOrder(items, settled) == settled

\* Line 345: Promise.all settles when every call of the cohort has.
AllSettled(k) == inFlight = {}

\* Lines 349-351: the results are taken in the order of pending.
ApplyOrder(items, settled) == [k \in DOMAIN items |-> k]

\* The memory after a batch: a batch that changed the tree is one more batch
\* the sidecar does not hold.
Applied(m) == IF m.ast # ast THEN [m EXCEPT !.unsaved = @ + 1] ELSE m

\* Lines 349-359: one pass of the loop over the cohort.
ApplyBatch ==
  /\ pc = "await"
  /\ applyIdx < Len(pending)
  /\ LET k == ApplyOrder(pending, doneOrder)[applyIdx + 1]
         item == pending[k]
     IN /\ AllSettled(k)
        /\ k \in DOMAIN renameMaps
        /\ SetMem(saveProgressIfNeeded(
                    Counted(Applied(applyRenameMap(Mem, item.uniqueIdentifiers, renameMaps[k])),
                            Len(item.group.identifiers))))
        /\ applyLog' = Append(applyLog, item.pos)
  /\ IF applyIdx + 1 = Len(pending)
     THEN /\ pc' = "prep" /\ pending' = <<>>
          /\ renameMaps' = <<>> /\ doneOrder' = <<>> /\ applyIdx' = 0
     ELSE /\ applyIdx' = applyIdx + 1
          /\ UNCHANGED <<pc, pending, renameMaps, doneOrder>>
  /\ UNCHANGED <<prog, cfg, found, loop, context, decorated, single, currentIndex, totalIdentifiers, stream, genPos, inFlight,
                 output, runNo, interrupted, refOut, memo, sent, launchLog>>

\* fs.writeFile rejects (resume-utils.ts line 63) at the checkpoint that
\* follows a batch: saveResumeState has no catch, nor has saveProgressIfNeeded
\* at line 216, nor the loop at line 357, and batchVisitAllIdentifiersGrouped
\* rejects.  The checkpoints of the skip paths (lines 248 and 266) make the
\* same call.  Failures are explored in the first run of a behaviour.
CheckpointWriteFails ==
  /\ pc = "await"
  /\ runNo = 1
  /\ applyIdx < Len(pending)
  /\ LET k == ApplyOrder(pending, doneOrder)[applyIdx + 1]
         item == pending[k]
         m == Counted(Applied(applyRenameMap(Mem, item.uniqueIdentifiers, renameMaps[k])),
                      Len(item.group.identifiers))
     IN /\ AllSettled(k)
        /\ k \in DOMAIN renameMaps
        /\ checkpointDue(m)
        /\ SetMem([m EXCEPT !.currentCodeSnapshot = IF m.astDirty THEN m.ast ELSE @,
                            !.astDirty = FALSE])
        /\ applyLog' = Append(applyLog, item.pos)
  /\ pc' = "writeFailed"
  /\ UNCHANGED <<prog, cfg, found, loop, context, decorated, single, currentIndex, totalIdentifiers, stream, genPos,
                 pending, inFlight, renameMaps, applyIdx, output, runNo, interrupted, refOut,
                 memo, sent, launchLog, doneOrder>>

\* The process dies inside fs.writeFile (resume-utils.ts line 63), which
\* opens the file with flag 'w', truncating it, and then writes: the file
\* is left empty or with the beginning of the new text.  Explored in the
\* first run of a behaviour; the behaviour ends there.
CrashInCheckpointWrite ==
  /\ pc = "await"
  /\ runNo = 1
  /\ applyIdx < Len(pending)
  /\ LET k == ApplyOrder(pending, doneOrder)[applyIdx + 1]
         item == pending[k]
         m == Counted(Applied(applyRenameMap(Mem, item.uniqueIdentifiers, renameMaps[k])),
                      Len(item.group.identifiers))
     IN /\ AllSettled(k)
        /\ k \in DOMAIN renameMaps
        /\ checkpointDue(m)
        /\ disk' = [disk EXCEPT ![sessionId] = Partial]
  /\ pc' = "crashedInWrite"
  /\ UNCHANGED <<prog, cfg, found, loop, context, decorated, single, engineVars, output, runNo, interrupted, refOut,
                 memo, historyVars>>

\* Lines 341-372: nothing is left; the sidecar is removed and the source returned.
Finish ==
  /\ pc = "prep"
  /\ pending = <<>>
  /\ genPos >= Len(stream) \/ batchConcurrency <= 0
  /\ disk' = IF sessionId # "" THEN deleteResumeState(disk, sessionId) ELSE disk
  /\ output' = ast
  /\ ones' = ones + 1
  /\ pc' = "done"
  /\ UNCHANGED <<prog, cfg, found, loop, context, decorated, single, engineVars, runNo, interrupted, refOut, memo, sent,
                 launchLog, applyLog, doneOrder, clash, renameLog, unsaved>>

\* ---- the runs of a behaviour
\* The memory of a process that has not started.
FreshMemory ==
  /\ ast' = SourceNames(Tree)
  /\ renames' = {} /\ visited' = {} /\ currentIndex' = 0
  /\ currentCodeSnapshot' = SourceNames(Tree)
  /\ astDirty' = FALSE
  /\ totalIdentifiers' = 0 /\ processedCount' = 0 /\ groupIndex' = 0
  /\ stream' = <<>> /\ genPos' = 0
  /\ pending' = <<>> /\ inFlight' = {} /\ renameMaps' = <<>> /\ applyIdx' = 0

\* The process dies, once: memory is lost, the files stay.
Crash ==
  /\ pc \in {"prep", "await"}
  /\ runNo = 2
  /\ ~interrupted
  /\ sessionId # ""
  /\ interrupted' = TRUE
  /\ pc' = "init"
  /\ FreshMemory
  /\ UNCHANGED <<prog, cfg, found, loop, context, decorated, single, disk, output, runNo, refOut, memo, historyVars>>

\* The first run of a behaviour is not interrupted; the program is then run
\* again with the same arguments and the same visitor.
\* The same call on the same source with batchConcurrency 1, the visitor
\* answering as it did; explored for the calls without a sidecar and without
\* merging of small scopes.
RerunSequential ==
  /\ pc = "done"
  /\ runNo = 1
  /\ cfg.batchConcurrency > 1
  /\ sessionId = "" /\ found = "nothing"
  /\ cfg.dirtyCheckpointInterval = 1 /\ cfg.smallScopeMergeLimit = 0
  /\ runNo' = 3
  /\ refOut' = output
  /\ output' = <<>>
  /\ pc' = "init"
  /\ FreshMemory
  /\ UNCHANGED <<prog, cfg, found, loop, context, decorated, single, disk, interrupted, memo,
                 historyVars>>

Rerun ==
  /\ pc = "done"
  /\ runNo = 1
  \* a run that began with the checkpoint of another file is not repeated
  /\ found # "chunkA"
  /\ runNo' = 2
  /\ refOut' = output
  /\ output' = <<>>
  /\ pc' = "init"
  /\ FreshMemory
  /\ UNCHANGED <<prog, cfg, found, loop, context, decorated, single, disk, interrupted, memo, historyVars>>

\* ------------------------------------------------------ visitAllIdentifiers
\* The engine that calls the visitor with one name at a time
\* (visit-all-identifiers.ts, second half of src/src/plugins/webcrack.ts).
NameStems ==
  {n[1] : n \in AnswerNames} \cup ReservedWords \cup
  UNION {{Programs[p].ids[i].name[1] : i \in DOMAIN Programs[p].ids} : p \in DOMAIN Programs}

\* name.startsWith('_')
startsWithUnderscore(name) == name[1] \in {"_" \o st : st \in NameStems}

\* foo -> foo1, foo1 -> foo2
renameConflictIdentifierWithDeterministicSuffix(name) ==
  IF endWithNumber(name) THEN <<name[1], getSuffixNumber(name) + 1>>
  ELSE <<name[1], 1>>

\* renameConflictIndentier of this engine: foo -> _foo, _foo -> _foo1, _foo1 -> _foo2
renameConflictWithUnderscore(name) ==
  IF startsWithUnderscore(name)
  THEN IF endWithNumber(name) THEN <<name[1], getSuffixNumber(name) + 1>>
       ELSE <<name[1], 1>>
  ELSE <<"_" \o name[1], name[2]>>

\* The scope of the nearest ancestor that is the program or declares the
\* name: for the id of a function declaration the function's own scope, for a
\* declarator, a catch parameter or an assignment target the scope the node is
\* in, for a parameter (no outer binding identifier of its function) the
\* program.
closestSurroundingContextPath(T, i) == IF T.ids[i].key = "param" THEN 1 ELSE T.ids[i].scope

\* scopes.sort((a, b) => b[1] - a[1]): largest first, equal sizes in the order
\* they had.
\* A faulty findScopes that leaves the identifiers in source order.
SourceOrder(T, paths) == paths

RECURSIVE LargestFirst(_, _)
LargestFirst(T, paths) ==
  IF paths = <<>> THEN <<>>
  ELSE LET size(i) == T.scopes[closestSurroundingContextPath(T, i)].size
           j == CHOOSE j \in DOMAIN paths :
                  /\ \A k \in DOMAIN paths : size(paths[k]) <= size(paths[j])
                  /\ \A k \in 1..(j - 1) : size(paths[k]) < size(paths[j])
       IN <<paths[j]>> \o
          LargestFirst(T, [k \in 1..(Len(paths) - 1) |-> IF k < j THEN paths[k] ELSE paths[k + 1]])

\* findScopes of this engine: every binding identifier, by size of its
\* surrounding scope.
findScopesBySize(T) == LargestFirst(T, SortByStart(T, BindingIdentifiers(T)))

\* getVisitedKey of this engine: the scope and the declaration of the binding
\* the current name resolves to.
getVisitedKeyOfBinding(T, nm, i) ==
  LET binding == getBinding(T, nm, T.ids[i].scope, nm[i])
  IN IF binding # 0 THEN <<T.ids[binding].bscope, T.ids[binding].bstart>>
     ELSE <<T.ids[i].scope, T.ids[i].start>>

\* The loop of lines 180-187.
RECURSIVE SafeRenamedSingle(_, _, _, _, _, _)
SafeRenamedSingle(T, nm, rs, s, name, uniqueNames) ==
  IF name \in rs \/ hasBinding(T, nm, s, name)
  THEN SafeRenamedSingle(T, nm, rs, s,
                         IF uniqueNames THEN renameConflictWithUnderscore(name)
                         ELSE renameConflictIdentifierWithDeterministicSuffix(name),
                         uniqueNames)
  ELSE name

\* Line 195: the loop saves at every tenth index.
SaveEvery == 10

\* Lines 108-158: visitAllIdentifiers loads or starts fresh.  The arguments
\* it does not have are held at one value.
SingleStart ==
  /\ pc = "init" /\ runNo = 1
  /\ cfg.batchConcurrency = 1 /\ cfg.maxBatchSize = MaxBatch
  /\ cfg.dirtyCheckpointInterval = 1 /\ cfg.smallScopeMergeLimit = 0
  /\ LET resumeState == LoadAtStartup
         resumed == isResumeState(resumeState)
     IN single' = [NoSingle EXCEPT
                     !.scopes = findScopesBySize(Tree),
                     !.ast = IF resumed THEN resumeState.state.code ELSE SourceNames(Tree),
                     !.renames = IF resumed THEN resumeState.state.renames ELSE {},
                     !.visited = IF resumed THEN resumeState.state.visited ELSE {},
                     !.i = IF resumed THEN resumeState.state.currentIndex ELSE 0]
  /\ pc' = "single"
  /\ UNCHANGED <<prog, cfg, found, loop, context, decorated, engineVars, disk, output, runNo, interrupted, refOut, memo,
                 historyVars>>

\* Line 165: the binding of scopes[i] has been visited.
SingleSkip ==
  /\ pc = "single"
  /\ single.i < Len(single.scopes)
  /\ getVisitedKeyOfBinding(Tree, single.ast, single.scopes[single.i + 1]) \in single.visited
  /\ single' = [single EXCEPT !.i = @ + 1]
  /\ UNCHANGED <<prog, cfg, found, loop, context, decorated, pc, engineVars, disk, output, runNo, interrupted, refOut,
                 memo, historyVars>>

\* Lines 167-212: the visitor is asked for scopes[i], the answer is applied,
\* the binding marked and the progress saved.
SingleVisit ==
  /\ pc = "single"
  /\ single.i < Len(single.scopes)
  /\ LET T == Tree
         smallestScope == single.scopes[single.i + 1]
         originalName == single.ast[smallestScope]
         s == T.ids[smallestScope].scope
     IN /\ getVisitedKeyOfBinding(T, single.ast, smallestScope) \notin single.visited
        /\ \E renamed \in AnswerNames \cup {originalName} :
             LET safeRenamed == SafeRenamedSingle(T, single.ast, single.renames, s,
                                                  toIdentifier(renamed), cfg.uniqueNames)
                 after ==
                   IF renamed # originalName
                   THEN [single EXCEPT
                           !.renames = @ \cup {safeRenamed},
                           !.ast = scopeRename(T, single.ast, s, originalName, safeRenamed),
                           !.renameLog = Append(@, [binding |-> getBinding(T, single.ast, s,
                                                                           originalName),
                                                    applied |-> safeRenamed])]
                   ELSE single
                 marked == after.visited \cup
                             {getVisitedKeyOfBinding(T, after.ast, smallestScope)}
                 resumeState ==
                   [code |-> after.ast, renames |-> after.renames, visited |-> marked,
                    currentIndex |-> single.i + 1, totalScopes |-> Len(single.scopes),
                    codePath |-> IF cfg.filePath # "" THEN cfg.filePath ELSE resumeCodePath]
             IN /\ single' =
                     [after EXCEPT
                        !.visited = marked,
                        !.calls = Append(@, [path |-> smallestScope, name |-> originalName,
                                             answer |-> renamed]),
                        !.i = @ + 1]
                /\ disk' = IF /\ sessionId # ""
                              /\ \/ single.i % SaveEvery = 0
                                 \/ single.i = Len(single.scopes) - 1
                           THEN saveResumeState(disk, resumeState, sessionId)
                           ELSE disk
  /\ UNCHANGED <<prog, cfg, found, loop, context, decorated, pc, engineVars, output, runNo, interrupted, refOut,
                 memo, historyVars>>

\* Lines 214-225: the loop has ended, the sidecar is removed and the code is
\* returned.
SingleFinish ==
  /\ pc = "single"
  /\ single.i >= Len(single.scopes)
  /\ single' = [single EXCEPT !.output = single.ast]
  /\ disk' = IF sessionId # "" THEN deleteResumeState(disk, sessionId) ELSE disk
  /\ pc' = "singleDone"
  /\ UNCHANGED <<prog, cfg, found, loop, context, decorated, engineVars, output, runNo, interrupted, refOut, memo,
                 historyVars>>

\* ---------------------------------------------------------------------------
\* The context text of one visitor call, by its length in characters.
\* scopesToString joins the shared context `code` and the snippets of the
\* targets; every string is modelled by its length, slice and concatenation by
\* what they do to the length.
SnippetHeaderLength == 69
EllipsisLength == 5
FocusHintLength == 23
MinIdentifierWindow == 120
ContextWindows == {200, 600}
CodeLengths == {20, 150, 700}
SnippetLengths == {10, 100, 190}
NameLengths == {1, 3}

MathMin(a, b) == IF a <= b THEN a ELSE b
MathMax(a, b) == IF a >= b THEN a ELSE b

\* String.prototype.slice(0, end) on a string of len characters
SliceLength(len, end) == IF end >= 0 THEN MathMin(len, end) ELSE MathMax(len + end, 0)

perIdentifierWindow(contextWindowSize, n) ==
  MathMax(MinIdentifierWindow, contextWindowSize \div MathMax(1, n))

\* the loop of lines 800-806: a header, the snippet and "\n...\n" for every target
RECURSIVE snippetsLength(_, _)
snippetsLength(nameLength, texts) ==
  IF texts = <<>> THEN 0
  ELSE SnippetHeaderLength + nameLength + Head(texts) + EllipsisLength
       + snippetsLength(nameLength, Tail(texts))

\* lines 808-822
finalCodeLength(contextWindowSize, code, snippets) ==
  IF code > contextWindowSize
  THEN IF snippets > contextWindowSize
       THEN SliceLength(snippets, contextWindowSize)
       ELSE SliceLength(code, contextWindowSize - snippets) + snippets
  ELSE IF snippets > contextWindowSize
       THEN SliceLength(snippets, contextWindowSize)
       ELSE SliceLength(code, contextWindowSize - snippets) + EllipsisLength + snippets

\* lines 842-868, W the contextWindowSize: enough says that the context has
\* minlines lines, longer that the expansion by parent lines has more lines
\* than the context, expanded is the length of the expansion
\* (expandContextByParentLines slices it to the window)
ensureContextHasMinimumLines(currentContext, W, nameLength, enough, longer, expanded) ==
  IF enough THEN currentContext
  ELSE IF ~longer THEN currentContext
  ELSE IF expanded + FocusHintLength + nameLength <= W
       THEN expanded + FocusHintLength + nameLength
       ELSE SliceLength(expanded, W)

scopesToString(contextWindowSize, code, nameLength, texts, enough, longer, expanded) ==
  LET snippets == snippetsLength(nameLength, texts)
      finalCode == finalCodeLength(contextWindowSize, code, snippets)
  IN IF Len(texts) = 1
     THEN ensureContextHasMinimumLines(finalCode, contextWindowSize, nameLength, enough,
                                       longer, expanded)
     ELSE finalCode

\* One call of scopesToString for a batch of n targets, on texts of the given
\* lengths: the snippet of a target is at most its window long (scopeToString,
\* lines 587-593), the expansion at most the context window (lines 870-906).
RenderContext ==
  /\ pc = "init" /\ runNo = 1
  /\ prog = 1 /\ found = "nothing" /\ cfg.resume = "" /\ ~cfg.uniqueNames
  /\ cfg.batchConcurrency = 1 /\ cfg.dirtyCheckpointInterval = 1
  /\ cfg.maxBatchSize = MaxBatch /\ cfg.smallScopeMergeLimit = 0
  /\ \E contextWindowSize \in ContextWindows, code \in CodeLengths,
        n \in 1..cfg.maxBatchSize, nameLength \in NameLengths,
        enough \in BOOLEAN, longer \in BOOLEAN :
       \E texts \in [1..n -> SnippetLengths], expanded \in CodeLengths :
         /\ \A j \in 1..n : texts[j] <= perIdentifierWindow(contextWindowSize, n)
         /\ expanded <= contextWindowSize
         /\ context' = [contextWindowSize |-> contextWindowSize, identifiers |-> n,
                        code |-> code,
                        snippets |-> snippetsLength(nameLength, texts),
                        length |-> scopesToString(contextWindowSize, code, nameLength,
                                                  texts, enough, longer, expanded)]
  /\ pc' = "rendered"
  /\ UNCHANGED <<prog, cfg, found, loop, decorated, single, engineVars, disk, output, runNo,
                 interrupted, refOut, memo, historyVars>>

Next ==
  \/ RenderContext
  \/ SingleStart
  \/ SingleSkip
  \/ SingleVisit
  \/ SingleFinish
  \/ RejectArguments
  \/ Start
  \/ SkipResumed
  \/ SkipVisited
  \/ SkipFiltered
  \/ Prepare
  \/ Launch
  \/ \E k \in 1..MaxConcurrency : Complete(k)
  \/ \E k \in 1..MaxConcurrency : VisitorThrows(k)
  \/ ApplyBatch
  \/ CheckpointWriteFails
  \/ CrashInCheckpointWrite
  \/ Finish
  \/ Crash
  \/ Rerun
  \/ RerunSequential

Spec == Init /\ [][Next]_vars

\* ---------------------------------------------------------------------------
\* The collision loop of applyRenameMap (lines 303-317) taken by itself, on the
\* text of the names.  A name is a stem and the digits it ends with; the digits
\* are the integer  big * 2^53 + low  (NoDigits: the name ends with no digit).
\* parseInt and `+ 1` compute with IEEE doubles: every integer below 2^53 is a
\* double, from 2^53 to 2^54 the even integers are, and a result in between is
\* rounded to the neighbour whose mantissa is even.
JsNumber(b, l) == [big |-> b, low |-> l]
NoDigits == JsNumber(FALSE, 0)

RoundToDouble(v) ==
  IF ~v.big \/ v.low % 2 = 0 THEN v
  ELSE JsNumber(TRUE, IF (v.low - 1) % 4 = 0 THEN v.low - 1 ELSE v.low + 1)

\* parseInt(match, 10)
parseInt(digits) == RoundToDouble(digits)

\* number + 1
plusOne(number) == RoundToDouble(JsNumber(number.big, number.low + 1))

\* lines 69-75 on the text of a name: name.replace(/(\d+)$/, ...) or `${name}1`
renameConflictOfText(name) ==
  IF name[2] # NoDigits THEN <<name[1], plusOne(parseInt(name[2]))>>
  ELSE <<name[1], JsNumber(FALSE, 1)>>

LoopStems == {"x", "Map"}
LoopDigits == {NoDigits, JsNumber(FALSE, 1), JsNumber(FALSE, 2),
               JsNumber(TRUE, 0), JsNumber(TRUE, 1), JsNumber(TRUE, 2)}
LoopBound == {<<"x", NoDigits>>, <<"x", JsNumber(FALSE, 1)>>, <<"x", JsNumber(FALSE, 2)>>,
              <<"x", JsNumber(TRUE, 0)>>, <<"x", JsNumber(TRUE, 4)>>}
LoopRenames == {<<"x", NoDigits>>, <<"x", JsNumber(FALSE, 3)>>, <<"Map", JsNumber(FALSE, 1)>>}

\* the condition of the two while loops
LoopConflicts(l) ==
  \/ cfg.uniqueNames /\ l.safeRenamed \in l.renames
  \/ l.safeRenamed \in l.bound
  \/ l.safeRenamed[2] = NoDigits /\ Nm(l.safeRenamed[1]) \in WEB_API_NAMES_LIST

\* The loop is entered with a proposed name, the names the scope of the
\* identifier sees and the names applied so far.
LoopInit ==
  /\ InitEngine
  /\ prog = 1 /\ found = "nothing" /\ cfg.resume = ""
  /\ cfg.batchConcurrency = 1 /\ cfg.dirtyCheckpointInterval = 1
  /\ cfg.maxBatchSize = MaxBatch /\ cfg.smallScopeMergeLimit = 0
  /\ loop \in [at : {"while"},
               safeRenamed : LoopStems \X LoopDigits,
               bound : SUBSET LoopBound,
               renames : SUBSET LoopRenames,
               odd : {FALSE}]

\* one pass of the body: safeRenamed = renameConflictIndentier(safeRenamed);
\* odd tells whether the number of passes made is odd
LoopBody ==
  /\ loop.at = "while"
  /\ LoopConflicts(loop)
  /\ loop' = [loop EXCEPT !.safeRenamed = renameConflictOfText(@), !.odd = ~@]
  /\ UNCHANGED <<prog, cfg, found, context, decorated, single, pc, engineVars, disk, output,
                 runNo, interrupted, refOut, memo, historyVars>>

\* the condition is false: renames.add(safeRenamed), line 319
LoopExit ==
  /\ loop.at = "while"
  /\ ~LoopConflicts(loop)
  /\ loop' = [loop EXCEPT !.at = "renamed", !.renames = @ \cup {loop.safeRenamed}]
  /\ UNCHANGED <<prog, cfg, found, context, decorated, single, pc, engineVars, disk, output,
                 runNo, interrupted, refOut, memo, historyVars>>

LoopNext == LoopBody \/ LoopExit

\* The loop runs on as long as its condition holds.
LoopSpec == LoopInit /\ [][LoopNext]_vars /\ WF_vars(LoopNext)

\* ------------------------------------------------------------------ claims
IsPrefix(s, t) == Len(s) <= Len(t) /\ SubSeq(t, 1, Len(s)) = s

\* The state of a binding's declaration is in Visited.
InVisited(b) ==
  \E k \in visited : k[1] = Tree.ids[b].bscope /\ k[3] = Tree.ids[b].bstart

\* C1: when a run has finished, every reference and every assignment target
\* of the renamed tree resolves to the declaration it resolved to in the
\* input tree.
C1_NoShadowLeakage ==
  pc = "done" =>
    \A i \in Idents(Tree) :
      Tree.ids[i].role # "decl" =>
        getBinding(Tree, output, Tree.ids[i].scope, output[i]) = OrigBinding(Tree, i)

\* C2: a rename never applies a name that the scope holding the renamed
\* binding already holds, and at every moment the bindings of one scope have
\* pairwise different names.
C2_UniquePerScope ==
  /\ ~clash
  /\ \A j, k \in Bindings(Tree) :
       (j # k /\ Tree.ids[j].bscope = Tree.ids[k].bscope) => ast[j] # ast[k]

\* A proposed name was bound already and has been applied with a number.
C2_Witness ==
  /\ pc \in {"prep", "await"}
  /\ \E b \in Bindings(Tree) : ast[b] = <<"x", 1>>
  /\ \E b \in Bindings(Tree) : ast[b] = <<"x", 0>>

\* C3: a run that was interrupted and restarted with the sidecar on disk and
\* the same deterministic visitor returns what the uninterrupted run returned.
C3_ResumeSafety ==
  (pc = "done" /\ runNo = 2 /\ interrupted) => output = refOut

\* C4: no file other than the sidecar of the session is ever written or
\* deleted: the file at the resume path, the input file and the sidecar of
\* the other derivation stay as the user left them.
C4_OnlySidecarWritten ==
  \A p \in Paths \ {sessionId} : disk[p] = FilesAtStartup[p]

\* A run with a resume path was interrupted, restarted from the sidecar it
\* had written, and has completed and removed the sidecar.
C4_Witness ==
  /\ sessionId # ""
  /\ interrupted /\ pc = "done" /\ currentIndex > 0
  /\ disk[sessionId] = Absent

\* C5: the batches of a cohort are applied in the order they were launched,
\* whatever the order their calls settled in, and the uninterrupted second run
\* returns what the first run returned.
C5_LaunchOrderApplied ==
  /\ IsPrefix(applyLog, launchLog)
  /\ (pc = "done" /\ runNo = 2 /\ ~interrupted) => output = refOut

\* The second call of a cohort settled first, and the result of the first
\* call has been applied, with a rename, before that of the second.
C5_Witness ==
  /\ pc = "await" /\ runNo = 2 /\ ~interrupted
  /\ doneOrder = <<2, 1>>
  /\ applyIdx = 1 /\ Len(applyLog) = Len(launchLog) - 1
  /\ astDirty

\* C6: the visitor calls launched and not settled never outnumber
\* batchConcurrency; the calls of a cohort are all in flight together before
\* any of them settles; and a cohort is smaller than batchConcurrency only
\* when no further batch is left to send.
C6_BoundedConcurrency ==
  /\ Cardinality(inFlight) <= batchConcurrency
  /\ Len(pending) <= batchConcurrency
  /\ (pc = "await" /\ doneOrder = <<>>) => inFlight = DOMAIN pending
  /\ (pc = "await" /\ Len(pending) < batchConcurrency) => genPos = Len(stream)

\* Two visitor calls are in flight at the same time.
C6_Witness == pc = "await" /\ Cardinality(inFlight) = 2

\* C7: within a run the tree changes only in a step taken after every call
\* of the cohort has settled, never in a step that prepares a group; and a
\* group is prepared only when every launched batch has been applied.
C7_TreeReadOnlyWhileInFlight ==
  [][/\ (ast' # ast /\ pc # "init" /\ pc' # "init") =>
          (pc = "await" /\ inFlight = {} /\ pending' \in {pending, <<>>})
     /\ Len(pending') > Len(pending) =>
          (ast' = ast /\ inFlight = {} /\ applyLog = launchLog)]_vars

\* A cohort of two has been applied with a rename and a group of the next
\* cohort has been prepared.
C7_Witness ==
  /\ pc = "prep" /\ Len(pending) >= 1
  /\ Len(applyLog) >= 2 /\ applyLog = launchLog
  /\ cfg.batchConcurrency = 2
  /\ astDirty

\* C8: within one run no binding is sent to the visitor more than once.
C8_SingleVisit == \A b \in Bindings(Tree) : sent[b] <= 1

\* C9: when a run has completed, every binding of the tree is in Visited or
\* is one the low-signal policy skips.
C9_AllVisitedOrSkipped ==
  pc = "done" =>
    \A b \in Bindings(Tree) : InVisited(b) \/ shouldSkipIdentifierForLLM(Tree, b)

\* C10: when a fresh run has completed, every binding the skip policy does
\* not exclude has been sent to the visitor.
C10_EveryBindingSent ==
  (pc = "done" /\ ~interrupted) =>
    \A b \in Bindings(Tree) : shouldSkipIdentifierForLLM(Tree, b) \/ sent[b] >= 1

\* C11: when an uninterrupted run has completed, every binding that was sent
\* to the visitor and kept its name (the answer gave its own name back, or
\* held no entry for it) is in Visited.
C11_NoOpAnswerMarksVisited ==
  (pc = "done" /\ ~interrupted) =>
    \A b \in Bindings(Tree) :
      (sent[b] >= 1 /\ output[b] = SourceNames(Tree)[b]) => InVisited(b)

\* C12: no run ends because a visitor call threw: the batch of the failed
\* call is a no-op and the run goes on.
C12_RunSurvivesVisitorError == pc # "visitorError"

\* C13: a call with maxBatchSize <= 0, batchConcurrency <= 0 or
\* smallScopeMergeLimit < 0 is rejected at once: it writes no file, parses
\* and groups nothing, prepares no batch and never calls the visitor.
C13_RejectedBeforeAnyWork ==
  (cfg.maxBatchSize <= 0 \/ cfg.batchConcurrency <= 0 \/ cfg.smallScopeMergeLimit < 0) =>
    /\ pc \in {"init", "rejected"}
    /\ disk = FilesAtStartup
    /\ stream = <<>> /\ totalIdentifiers = 0 /\ pending = <<>>
    /\ launchLog = <<>> /\ memo = {}
    /\ output = <<>>

\* A call with an argument out of range has been rejected.
C13_Witness ==
  /\ pc = "rejected"
  /\ cfg.maxBatchSize <= 0 \/ cfg.batchConcurrency <= 0 \/ cfg.smallScopeMergeLimit < 0

\* The renames of log, as long as they are of bindings of one scope, apply
\* x, x1, x2, ... in that order.
SuffixesInOrder(log) ==
  \A j \in DOMAIN log :
    (\A i \in 1..j : Tree.ids[log[i].binding].bscope = Tree.ids[log[1].binding].bscope)
      => log[j].applied = <<"x", j - 1>>

\* No identifier of the source text is called stem, with or without digits.
NotInSource(stem) == \A i \in Idents(Tree) : Tree.ids[i].name[1] # stem

IdentityAnswers ==
  \A p \in memo : DOMAIN p[2] = Range(p[1]) /\ \A k \in DOMAIN p[2] : p[2][k] = k

C16_NoStateLeftAfterCompletion ==
  (pc = "done" /\ sessionId # "") =>
    \A p \in {sessionId, legacySessionId, resumeCodePath} : ~isResumeState(disk[p])

\* C17: no run ends because the sidecar could not be written at a checkpoint.
C17_RunSurvivesWriteFailure == pc # "writeFailed"

\* C18: when the file found at the session path is not a resume state, the
\* run starts from the given source and the file stays as it was found.
C18_CorruptSidecarKept ==
  found = "corrupt" =>
    /\ disk[sessionId] = Corrupt
    /\ (runNo = 1 /\ pc \in {"prep", "await", "done"}) => currentIndex = 0

\* C19: the fraction reported by onProgress is never above 1, and a run that
\* has completed has reported the value 1 exactly once.
C19_ProgressOneOnce ==
  /\ processedCount <= totalIdentifiers
  /\ pc = "done" => ones = 1

C21_IndexWithinTotal ==
  \A p \in Paths :
    isResumeState(disk[p]) => disk[p].state.currentIndex <= disk[p].state.totalScopes

\* A run that was interrupted and restarted has written a state that counts
\* every binding, and the state before it counted fewer.
C21_Witness ==
  /\ sessionId # "" /\ interrupted /\ pc \in {"prep", "await"}
  /\ currentIndex > 0 /\ currentIndex < totalIdentifiers
  /\ isResumeState(disk[sessionId])
  /\ disk[sessionId].state.currentIndex = disk[sessionId].state.totalScopes

\* C22: no file is ever the beginning of a resume state: a crash during a
\* checkpoint leaves the previous state or the new one.
C22_AtomicCheckpoint == \A p \in Paths : disk[p].kind # "partial"

\* C23: when the file found at the session path cannot be read or parsed, or
\* is a parsed file in which a field of ResumeState is missing or has another
\* type, loadResumeState returns no state for it and the run that has started
\* holds nothing of it.
C23_LoadRejectsWrongShape ==
  (/\ sessionId # "" /\ runNo = 1 /\ pc \in {"prep", "await", "single"}
   /\ \/ FilesAtStartup[sessionId].kind # "json"
      \/ FilesAtStartup[sessionId].shape # GoodShape)
    => /\ ~isResumeState(loadResumeState(FilesAtStartup, sessionId))
       /\ NumberAsName \notin renames \cup single.renames
       /\ NumberAsKey \notin visited \cup single.visited

\* The nearest program or function that encloses the identifier node i (the
\* id of a function declaration lies in the declaration).
EnclosingFunction(i) ==
  LET RECURSIVE Up(_)
      Up(s) == IF Tree.scopes[s].kind \in {"Program", "Function"} THEN s
               ELSE Up(Tree.scopes[s].parent)
  IN Up(Tree.ids[i].scope)

\* The group was put together from several groups by mergeSmallScopeGroups.
IsMerged(g) == Len(g.scopeKey) >= 2

C25_FunctionNameWithSiblings ==
  \A n \in DOMAIN pending :
    ~IsMerged(pending[n].group) =>
      \A j, k \in DOMAIN pending[n].uniqueIdentifiers :
        LET x == pending[n].uniqueIdentifiers[j]
            y == pending[n].uniqueIdentifiers[k]
        IN (Tree.ids[x].key = "fnId" /\ Tree.ids[y].key # "fnId")
             => Tree.ids[y].bscope # Tree.ids[x].scope

Ceil(n, m) == (n + m - 1) \div m

\* The number of batches the groups before group g yield.
RECURSIVE BatchesBefore(_, _, _)
BatchesBefore(groups, g, m) ==
  IF g <= 1 THEN 0
  ELSE BatchesBefore(groups, g - 1, m) + Ceil(Len(groups[g - 1].identifiers), m)

\* C26: splitOversizedGroupsGenerator turns a group of n bindings into exactly
\* ceil(n / maxBatchSize) batches, each of at most maxBatchSize bindings, and
\* the batches are the consecutive pieces of the group in its order.  Stated
\* when the generator has been made and no batch has been taken from it: ast
\* is then the code the groups were made of.
C26_SplitIntoCeilBatches ==
  (pc = "prep" /\ genPos = 0) =>
    LET m == cfg.maxBatchSize
        groups == groupsToProcess(Tree, ast, m, cfg.smallScopeMergeLimit)
    IN /\ Len(stream) = BatchesBefore(groups, Len(groups) + 1, m)
       /\ \A g \in DOMAIN groups :
            LET ids == groups[g].identifiers
                first == BatchesBefore(groups, g, m)
            IN \A j \in 1..Ceil(Len(ids), m) :
                 /\ first + j \in DOMAIN stream
                 /\ Len(stream[first + j].identifiers) \in 1..m
                 /\ \A x \in DOMAIN stream[first + j].identifiers :
                      /\ (j - 1) * m + x \in DOMAIN ids
                      /\ stream[first + j].identifiers[x] = ids[(j - 1) * m + x]
                 /\ j < Ceil(Len(ids), m) => Len(stream[first + j].identifiers) = m

\* A group of three bindings has been split into a batch of two and a batch of
\* one.
C26_Witness ==
  /\ Tree = ProgThree /\ pc = "prep" /\ genPos = 0
  /\ cfg.maxBatchSize = 2
  /\ Len(stream) = 2
  /\ Len(stream[1].identifiers) = 2 /\ Len(stream[2].identifiers) = 1

\* C27: every visitor call receives a non-empty list of pairwise distinct
\* names whose length is at most maxBatchSize.
C27_CallsDistinctAndBounded ==
  \A n \in DOMAIN pending :
    LET names == pending[n].identifierNames
    IN /\ names # <<>>
       /\ Len(names) <= cfg.maxBatchSize
       /\ \A j, k \in DOMAIN names : j # k => names[j] # names[k]

\* A visitor call is under way for a batch of two identifiers of one name: the
\* name is sent once.
C27_Witness ==
  /\ pc = "await"
  /\ \E n \in inFlight :
       /\ Len(pending[n].group.identifiers) = 2
       /\ Len(pending[n].identifierNames) = 1

\* The grouping scope of an identifier in the source as given, and its size.
GroupingScope(i) == getGroupingScopePath(Tree, SourceNames(Tree), i)

GroupingSize(i) == Tree.scopes[GroupingScope(i)].size

\* Identifier x of a batch comes before identifier y in the order the spec
\* gives: not from a larger scope, and within one scope declared earlier.
InSortOrder(x, y) ==
  /\ GroupingSize(x) <= GroupingSize(y)
  /\ GroupingScope(x) = GroupingScope(y) => Tree.ids[x].start < Tree.ids[y].start

LowSignal == {i \in Idents(Tree) : Tree.ids[i].key = "catch" /\ Tree.ids[i].empty}

InBatch(i, g) == \E j \in DOMAIN g.identifiers : g.identifiers[j] = i

\* The identifiers of the batches taken from the generator, less those of the
\* cohort under way whose answers have not been applied.
SettledCount ==
  CountIdentifiers(SelectSeq(SubSeq(stream, 1, genPos),
                             LAMBDA g : \A n \in DOMAIN pending :
                                          n > applyIdx => pending[n].group # g))

\* C29: a catch parameter whose catch body has no statement is never named in
\* a visitor call; it is counted in the progress total, and once its batch has
\* been taken it is marked visited and counted in the processed count that the
\* checkpoints record as currentIndex.
C29_EmptyCatchParamSkipped ==
  pc \in {"prep", "await", "done"} =>
    \A i \in LowSignal :
      /\ sent[i] = 0
      /\ \A n \in DOMAIN pending :
           \A j \in DOMAIN pending[n].uniqueIdentifiers : pending[n].uniqueIdentifiers[j] # i
      /\ \E p \in DOMAIN stream : InBatch(i, stream[p])
      /\ totalIdentifiers = CountIdentifiers(stream)
      /\ \A p \in 1..genPos :
           InBatch(i, stream[p]) =>
             /\ hasVisited(Tree, ast, i, visited)
             /\ processedCount = SettledCount
             /\ processedCount >= 1

\* The batch of the catch parameter has been taken after one visitor call: the
\* parameter was not sent, and the checkpoint written at the skip records it
\* as visited and counts it in currentIndex.
C29_Witness ==
  /\ Tree = ProgCatch /\ pc = "prep" /\ runNo = 1 /\ found = "nothing"
  /\ genPos = 2 /\ processedCount = 2 /\ totalIdentifiers = 3
  /\ LowSignal # {}
  /\ \A i \in LowSignal :
       /\ sent[i] = 0
       /\ hasVisited(Tree, ast, i, visited)
       /\ InBatch(i, stream[2])
       /\ sessionId # "" /\ isResumeState(disk[sessionId])
       /\ disk[sessionId].state.currentIndex = 2
       /\ hasVisited(Tree, ast, i, disk[sessionId].state.visited)
  /\ \E b \in Bindings(Tree) \ LowSignal : sent[b] = 1

\* C30: with uniqueNames = true every name applied by a rename differs from
\* every name applied earlier in the run, the part before a resume included,
\* is not bound in the scope of the binding it is given to, and is not in the
\* list of built-in globals.  The names applied before a resume are those the
\* resumed code holds in place of a source name.
C30_UniqueNamesFresh ==
  cfg.uniqueNames =>
    /\ \A j, k \in DOMAIN renameLog :
         j < k => renameLog[j].applied # renameLog[k].applied
    /\ \A k \in DOMAIN renameLog :
         /\ renameLog[k].applied \notin WEB_API_NAMES_LIST
         /\ pc \in {"prep", "await", "done"} =>
              \A b \in Bindings(Tree) \ {renameLog[k].binding} :
                ast[b] # SourceNames(Tree)[b] => ast[b] # renameLog[k].applied
    /\ ~clash

\* After an interruption the resumed run has given the second block's binding
\* the name x1, because the first block's binding got x before the checkpoint
\* it resumed from.
C30_Witness ==
  /\ cfg.uniqueNames /\ Tree = ProgBlocks /\ runNo = 2 /\ interrupted
  /\ pc \in {"prep", "await", "done"} /\ currentIndex > 0
  /\ Len(renameLog) = 1
  /\ renameLog[1].applied = <<"x", 1>>
  /\ \E b \in Bindings(Tree) \ {renameLog[1].binding} : ast[b] = Nm("x")

\* C31: for one resume path, the sessions of two different per-file paths are
\* isolated: a run started for one file has a session path that no other file
\* has, the state it loaded at startup, when a run for a file wrote it, was
\* written for this file, and without a per-file path the session path is the
\* legacy path.
C31_SessionsIsolated ==
  (sessionId # "" /\ pc \in {"prep", "await", "done"}) =>
    /\ cfg.filePath = "" => sessionId = legacySessionId
    /\ cfg.filePath # "" =>
         \A g \in FilePaths \ {cfg.filePath} :
           sessionId # resolveResumeSessionPath(resumeCodePath, g)
    /\ (cfg.filePath # "" /\ runNo = 1) =>
         LET resumeState == LoadFrom(FilesAtStartup)
         IN (isResumeState(resumeState) /\ resumeState.state.codePath \in FilePaths)
              => resumeState.state.codePath = cfg.filePath

\* The codePath a run writes into its checkpoints (line 214).
OwnCodePath == IF cfg.filePath # "" THEN cfg.filePath ELSE resumeCodePath

\* C32: the codePath of a resume state is validated on load: a run that has
\* started did not resume from a state whose codePath is another path than
\* the run's own.
C32_CodePathValidated ==
  (sessionId # "" /\ runNo = 1 /\ pc \in {"prep", "await", "done"}) =>
    LET resumeState == LoadFrom(FilesAtStartup)
    IN isResumeState(resumeState) =>
         /\ resumeState.state.codePath = OwnCodePath
         /\ currentIndex = resumeState.state.currentIndex

\* The size of the scope that surrounds a binding identifier.
SurroundingSize(i) == Tree.scopes[closestSurroundingContextPath(Tree, i)].size

C34_ContextWithinWindow ==
  context # NoContext => context.length <= context.contextWindowSize

\* C35: the "Rename this NAME" comment is on the targets only while the context
\* of their batch is rendered: in every state between the steps of a run, and so
\* whenever the source is printed for a checkpoint or for the output, no
\* identifier of the tree carries it, although the context that was sent has it
\* on every target of the batch.
C35_DecorationOnlyWhileRendering ==
  /\ decorated = {}
  /\ \A j \in DOMAIN pending :
       pending[j].annotated = {pending[j].uniqueIdentifiers[k] :
                                 k \in DOMAIN pending[j].uniqueIdentifiers}

C35_Witness ==
  /\ pc = "await" /\ runNo = 1 /\ renameLog # <<>>
  /\ sessionId # "" /\ found = "nothing" /\ isResumeState(LoadFrom(disk))
  /\ cfg.batchConcurrency = MaxConcurrency
  /\ \E j \in DOMAIN pending : Cardinality(pending[j].annotated) = MaxBatch
  /\ decorated = {}

\* C36: in a run that began with an empty Visited set, a binding is reported as
\* visited only after it was itself sent to the visitor or passed over as
\* low-signal: marking one binding never makes another binding visited.
C36_OnlyOwnIdentityMarked ==
  (runNo = 1 /\ found = "nothing" /\ pc \in {"prep", "await", "done"}) =>
    \A b \in Bindings(Tree) :
      hasVisited(Tree, ast, b, visited) =>
        (sent[b] >= 1 \/ shouldSkipIdentifierForLLM(Tree, b))

\* The identifiers of the batches before position p of the stream.
IdentifiersBefore(p) == CountIdentifiers(SubSeq(stream, 1, p - 1))

\* The batch at position p was taken and, if it was sent, its answer applied.
SettledBatch(p) ==
  /\ p <= genPos
  /\ \A n \in DOMAIN pending : n > applyIdx => pending[n].pos # p

\* C37: the currentIndex of the checkpoint on disk counts settled batches only:
\* every batch a resume from it would pass over (those that begin before
\* currentIndex identifiers) has been applied or skipped by the run that wrote it.
C37_CheckpointCountsSettledPrefix ==
  (found = "nothing" /\ ~interrupted /\ sessionId # "" /\ pc \in {"prep", "await"}
     /\ isResumeState(LoadFrom(disk))) =>
    \A p \in 1..Len(stream) :
      IdentifiersBefore(p) < LoadFrom(disk).state.currentIndex => SettledBatch(p)

\* C38: with a visitor whose answer depends on the names only, the call with
\* batchConcurrency c returns the source the call with batchConcurrency 1
\* returns.
C38_SameOutputForEveryConcurrency ==
  (pc = "done" /\ runNo = 3) => output = refOut

\* C39: the collision loop of applyRenameMap terminates: whatever name is
\* proposed, whatever names are bound or were applied, with either setting of
\* uniqueNames, the loop is left with a name that does not collide.
C39_CollisionLoopTerminates ==
  <>(loop.at = "renamed" /\ ~(loop.safeRenamed \in loop.bound))

====
